---- MODULE Spec2Model ----
(***************************************************************************)
(* Quantized bit-serial crossbar layer of MNSIM (MNSIM/Interface/layer.py). *)
(*                                                                         *)
(* Real numbers (tensor elements, scales, steps) are exact rationals       *)
(* <<n, d>> with d > 0 and gcd(n, d) = 1; floating-point rounding error is *)
(* not modelled.  A tensor is a sequence of rationals.  Python's float     *)
(* division by zero (ZeroDivisionError) and failed assertions are explicit *)
(* outcomes of the operations that can raise them.                         *)
(***************************************************************************)
EXTENDS Integers, Sequences, FiniteSets, TLC

VARIABLES
    fn, args, res,                               \* a call of a module-level function
    q_inputs, quantize_cfg, last_bit_scale, q_trace,   \* calls of Quantize
    layer_ini, weight, training, bit_scale_list, n_train, call  \* a layer object

pureVars  == <<fn, args, res>>
quantVars == <<q_inputs, quantize_cfg, last_bit_scale, q_trace>>
layerVars == <<layer_ini, weight, training, bit_scale_list, n_train, call>>
vars      == <<fn, args, res, q_inputs, quantize_cfg, last_bit_scale, q_trace,
               layer_ini, weight, training, bit_scale_list, n_train, call>>

----------------------------------------------------------------------------
(* Bounds of the model. *)
MaxNum == 20
MaxBase == 8
MaxTensor == 130
MaxBitWidth == 8
MaxBitSplit == 3
MaxQuantBit == 3
MaxApply == 2
MaxSmooth == 1
MaxTrain == 2

----------------------------------------------------------------------------
(* Exact arithmetic standing for the float arithmetic of the source. *)

RECURSIVE GCD(_, _)
GCD(a, b) == IF b = 0 THEN a ELSE GCD(b, a % b)

IAbs(i) == IF i < 0 THEN -i ELSE i

Norm(n, d) ==
    IF d = 1 THEN <<n, 1>>
    ELSE LET s == IF d < 0 THEN -1 ELSE 1
             g == GCD(IAbs(n), IAbs(d))
         IN  <<(s * n) \div g, (s * d) \div g>>

R(i) == <<i, 1>>
(* Sums and comparisons go through the least common denominator. *)
RAdd(a, b) ==
    IF a[2] = b[2] THEN Norm(a[1] + b[1], a[2])
    ELSE LET g == GCD(a[2], b[2])
         IN  Norm(a[1] * (b[2] \div g) + b[1] * (a[2] \div g),
                  (a[2] \div g) * b[2])
RNeg(a) == <<-a[1], a[2]>>
RSub(a, b) == RAdd(a, RNeg(b))
(* Products cancel the common factors across before multiplying. *)
RMul(a, b) ==
    IF a[1] = 0 \/ b[1] = 0 THEN <<0, 1>>
    ELSE IF a[2] = 1 /\ b[2] = 1 THEN <<a[1] * b[1], 1>>
    ELSE LET g1 == GCD(IAbs(a[1]), b[2])
             g2 == GCD(IAbs(b[1]), a[2])
         IN  <<(a[1] \div g1) * (b[1] \div g2), (a[2] \div g2) * (b[2] \div g1)>>
RInv(b) == IF b[1] < 0 THEN <<-b[2], -b[1]>> ELSE <<b[2], b[1]>>   \* b /= 0
RDiv(a, b) == RMul(a, RInv(b))
RAbs(a) == <<IAbs(a[1]), a[2]>>
RLt(a, b) ==
    LET g == GCD(a[2], b[2])
    IN  a[1] * (b[2] \div g) < b[1] * (a[2] \div g)
RLe(a, b) == ~RLt(b, a)
RIsInt(a) == a[2] = 1
RIsZero(a) == a[1] = 0

(* 2 ** k for an integer k of either sign. *)
RPow2(k) == IF k >= 0 THEN <<2 ^ k, 1>> ELSE <<1, 2 ^ (-k)>>

(* torch.round: to the nearest integer, ties to the even one. *)
Round(a) ==
    LET f == a[1] \div a[2]
        r == a[1] % a[2]
    IN  IF 2 * r < a[2] THEN f
        ELSE IF 2 * r > a[2] THEN f + 1
        ELSE IF f % 2 = 0 THEN f ELSE f + 1

(* torch.clamp(x, min=lo, max=hi): min(max(x, lo), hi). *)
Clamp(i, lo, hi) ==
    LET m == IF i < lo THEN lo ELSE i
    IN  IF m > hi THEN hi ELSE m

Sign(i) == IF i > 0 THEN 1 ELSE IF i < 0 THEN -1 ELSE 0

RECURSIVE SumInt(_)
SumInt(s) == IF s = <<>> THEN 0 ELSE Head(s) + SumInt(Tail(s))

RECURSIVE RSumTo(_, _)
RSumTo(s, n) == IF n = 0 THEN R(0) ELSE RAdd(RSumTo(s, n - 1), s[n])

(* torch.sum of a sequence of numbers. *)
RSum(s) == RSumTo(s, Len(s))

RECURSIVE RMaxAbs(_)
RMaxAbs(s) ==
    IF s = <<>> THEN R(0)
    ELSE LET m == RMaxAbs(Tail(s))
         IN  IF RLt(m, RAbs(Head(s))) THEN RAbs(Head(s)) ELSE m

----------------------------------------------------------------------------
(* Module-level helpers. *)

_get_thres(bit_width) == 2 ^ (bit_width - 1) - 1

(* math.ceil((bit_width - 1) / bit_split), written with floor division. *)
_get_cycle(bit_width, bit_split) == -((-(bit_width - 1)) \div bit_split)

(* quantize_tensor of split_by_bit, one element. *)
quantize_level(x, scale, bit_width) ==
    Clamp(Round(RDiv(x, scale)), -_get_thres(bit_width), _get_thres(bit_width))

(* t_weight with the residues taken one digit too far. *)
t_weight_shifted(abs_q, k, weight_cycle, bit_split) ==
    IF k = 0 THEN 0
    ELSE IF k = weight_cycle THEN abs_q
    ELSE abs_q % (2 ^ (bit_split * (k + 1)))

(* t_weight[k] of split_by_bit for one element of abs_tensor. *)
t_weight(abs_q, k, weight_cycle, bit_split) ==
    IF k = 0 THEN 0
    ELSE IF k = weight_cycle THEN abs_q
    ELSE abs_q % (2 ^ (bit_split * k))

(* o_weight without the multiplication by sign_tensor. *)
o_weight_unsigned(q, i, weight_cycle, bit_split) ==
    RDiv(R(t_weight(IAbs(q), i + 1, weight_cycle, bit_split)
           - t_weight(IAbs(q), i, weight_cycle, bit_split)),
         R(2 ^ (bit_split * i)))

(* o_weight[i] of split_by_bit for one element: i counts from 0. *)
o_weight(q, i, weight_cycle, bit_split) ==
    RMul(R(Sign(q)),
         RDiv(R(t_weight(IAbs(q), i + 1, weight_cycle, bit_split)
                - t_weight(IAbs(q), i, weight_cycle, bit_split)),
              R(2 ^ (bit_split * i))))

(* split_by_bit: the list of weight_cycle tensors, least significant first. *)
split_by_bit(tensor, scale, bit_width, bit_split) ==
    LET weight_cycle == _get_cycle(bit_width, bit_split)
    IN  [i \in 1..weight_cycle |->
            [e \in 1..Len(tensor) |->
                o_weight(quantize_level(tensor[e], scale, bit_width),
                         i - 1, weight_cycle, bit_split)]]

(* [x] * n of Python. *)
Repeat(x, n) == [k \in 1..n |-> x]

(* The outcome of a call: a returned value, or the exception raised. *)
Return(v) == [status |-> "ok", value |-> v]
Raise(e) == [status |-> e, value |-> <<>>]
Pending == [status |-> "pending", value |-> <<>>]

(* split_by_num that appends the remainder chunk even when it is zero. *)
split_by_num_always_rest(num, base) ==
    IF num <= 0 \/ base <= 0 THEN Raise("AssertionError")
    ELSE Return(Repeat(base, num \div base) \o <<num % base>>)

(* split_by_num: the partition sizes, or the failed assertion. *)
split_by_num(num, base) ==
    IF num <= 0 \/ base <= 0 THEN Raise("AssertionError")
    ELSE Return(Repeat(base, num \div base)
                \o Repeat(num % base, IF num % base > 0 THEN 1 ELSE 0))

----------------------------------------------------------------------------
(* QuantizeFunction.forward *)

RATIO == <<707, 1000>>

(* The smoothing with the two weights exchanged. *)
smooth_swapped(r_scale, t_scale) ==
    RAdd(RMul(RSub(R(1), RATIO), r_scale), RMul(RATIO, t_scale))

(* RATIO * r_scale + (1 - RATIO) * t_scale *)
smooth(r_scale, t_scale) ==
    RAdd(RMul(RATIO, r_scale), RMul(RSub(R(1), RATIO), t_scale))

(* The scale of a call, or the failed assertion.  t_scale stands for       *)
(* 3 * std(inputs) + |mean(inputs)|, a non-negative statistic of the whole *)
(* tensor that the caller of this operator supplies.                       *)
get_scale(inputs, cfg, row, t_scale) ==
    IF cfg.mode = "weight" THEN Return(RMaxAbs(inputs))
    ELSE IF cfg.mode = "activation" THEN
        LET r_scale == RMul(row[2], R(_get_thres(row[1])))
        IN  IF cfg.phase = "train" THEN
                IF RLe(r_scale, R(0)) THEN Return(t_scale)
                ELSE Return(smooth(r_scale, t_scale))
            ELSE IF cfg.phase = "test" THEN Return(r_scale)
            ELSE Raise("AssertionError")
    ELSE Raise("AssertionError")

(* output / (thres / scale) with the threshold forgotten. *)
dequantize_no_thres(level, thres, scale) == RMul(R(level), scale)

(* output / (thres / scale) *)
dequantize(level, thres, scale) == RDiv(R(level), RDiv(R(thres), scale))

(* The row written with the scale in place of the step. *)
commit_scale(bit, scale, thres) == <<bit, scale>>

(* last_bit_scale[0].fill_(bit); last_bit_scale[1].fill_(scale / thres) *)
commit(bit, scale, thres) == <<bit, RDiv(scale, R(thres))>>

(* A call of Quantize that raises: nothing is returned, the row is as it   *)
(* was.                                                                    *)
quantize_failed(e, row, scale) ==
    [status |-> e, levels |-> <<>>, output |-> <<>>, row |-> row, scale |-> scale]

(* torch.clamp(torch.round(inputs / (scale / thres)), -thres, thres) *)
quantize_levels(inputs, scale, thres) ==
    [e \in 1..Len(inputs) |->
        Clamp(Round(RDiv(inputs[e], RDiv(scale, R(thres)))), -thres, thres)]

(* The returned tensor and the row written once both divisions are done. *)
quantize_result(levels, bit, scale, thres) ==
    [status |-> "ok",
     levels |-> levels,
     output |-> [e \in 1..Len(levels) |-> dequantize(levels[e], thres, scale)],
     row |-> commit(bit, scale, thres),
     scale |-> scale]

(* Quantize from the scale on: scale / thres and thres / scale are         *)
(* divisions of Python floats, which raise on a zero divisor, and both     *)
(* come before the row is written.                                         *)
quantize_scaled(inputs, bit, row, sc, thres) ==
    IF sc.status /= "ok" THEN quantize_failed(sc.status, row, R(0))
    ELSE IF thres = 0 \/ RIsZero(sc.value)
    THEN quantize_failed("ZeroDivisionError", row, sc.value)
    ELSE quantize_result(quantize_levels(inputs, sc.value, thres),
                         bit, sc.value, thres)

(* The outcome of Quantize(inputs, quantize_cfg, last_bit_scale): its      *)
(* status, the integer levels, the returned tensor, the row as the call    *)
(* leaves it, and the scale it computed.                                   *)
Quantize(inputs, cfg, row, t_scale) ==
    quantize_scaled(inputs, cfg.bit, row, get_scale(inputs, cfg, row, t_scale),
                    _get_thres(cfg.bit))

----------------------------------------------------------------------------
(* BaseWeightLayer with the fully-connected variant QuantizeFC: one output *)
(* feature and one sample, so that every tensor the forward pass returns   *)
(* has one element; the weight of the layer is the concatenation of the    *)
(* weights of layer_list.                                                  *)

(* F.linear(v, w, bias=None) for one sample and one output feature. *)
RECURSIVE DotTo(_, _, _)
DotTo(v, w, n) ==
    IF n = 0 THEN R(0) ELSE RAdd(DotTo(v, w, n - 1), RMul(v[n], w[n]))

partial_func(v, w) == DotTo(v, w, Len(v))

RECURSIVE Chunks(_, _)
(* torch.split(tensor, ...) into consecutive pieces of the given sizes. *)
Chunks(tensor, sizes) ==
    IF sizes = <<>> THEN <<>>
    ELSE <<SubSeq(tensor, 1, Head(sizes))>>
         \o Chunks(SubSeq(tensor, Head(sizes) + 1, Len(tensor)), Tail(sizes))

(* QuantizeFC.get_module_config: the in_features of layer_list. *)
in_features_list(ini) ==
    split_by_num(ini.layer.in_features, ini.hardware.xbar_row).value

(* get_buffer_list: the table a constructed layer holds. *)
get_buffer_list(ini) ==
    <<<<ini.quantize.input, R(-1)>>,
      <<ini.quantize.weight, R(-1)>>,
      <<ini.quantize.output, R(-1)>>>>

(* What a forward call leaves behind: the method, self.training at the     *)
(* call, the outcome, the arguments, the returned element and, for         *)
(* SINGLE_FIX_TEST, every partial sum (raw: scaled, before torch.round;    *)
(* val: rounded and clamped; sp: scale_point) and the accumulated sum      *)
(* before the last quantization.                                           *)
Outcome(method, train, status, inputs, input_config, output, adc, acc) ==
    [method |-> method, training |-> train, status |-> status,
     inputs |-> inputs, input_config |-> input_config,
     output |-> output, adc |-> adc, acc |-> acc]

RECURSIVE tradition_sum(_, _, _)
(* The sum over layer_list of layer(input_list[i]), first n sub-layers. *)
tradition_sum(input_list, weight_list, n) ==
    IF n = 0 THEN R(0)
    ELSE RAdd(tradition_sum(input_list, weight_list, n - 1),
              partial_func(input_list[n], weight_list[n]))

(* forward, method TRADITION: the sum of the sub-layers' outputs. *)
tradition_forward(inputs, w, ini) ==
    tradition_sum(Chunks(inputs, in_features_list(ini)),
                  Chunks(w, in_features_list(ini)),
                  Len(in_features_list(ini)))

(* get_quantize_weight_bit_list *)
get_quantize_weight_bit_list(w, bsl, ini) ==
    LET weight_list == Chunks(w, in_features_list(ini))
    IN  [l \in 1..Len(weight_list) |->
            split_by_bit(weight_list[l], bsl[2][2], bsl[2][1], ini.hardware.cell_bit)]

(* The ADC read-out without the clamp. *)
adc_readout_unclamped(raw, Q) == Round(raw)

(* torch.clamp(torch.round(tmp), min=-output_thres, max=output_thres) *)
adc_readout(raw, Q) == Clamp(Round(raw), -_get_thres(Q), _get_thres(Q))

(* scale_point counted from the least significant digit pair. *)
scale_point_reversed(i, j, input_cycle, weight_cycle, ini) ==
    i * ini.hardware.dac_bit + j * ini.hardware.cell_bit

(* scale_point of the digit pair (i, j), both counted from 0. *)
scale_point(i, j, input_cycle, weight_cycle, ini) ==
    (input_cycle - 1 - i) * ini.hardware.dac_bit
    + (weight_cycle - 1 - j) * ini.hardware.cell_bit

(* clamp(round(output * output_thres)) of the summed output. *)
output_level(output, bit) ==
    Clamp(Round(RMul(output, R(_get_thres(bit)))), -_get_thres(bit), _get_thres(bit))

(* One pass of the innermost loop: the partial sum scaled before the      *)
(* read-out (raw), read out (val), and divided by transfer_scale and       *)
(* 2 ** scale_point (out).                                                 *)
adc_entry(l, i, j, raw, sp, Q, transfer_scale) ==
    [layer |-> l, i |-> i, j |-> j, raw |-> raw, val |-> adc_readout(raw, Q),
     sp |-> sp,
     out |-> RDiv(R(adc_readout(raw, Q)), RMul(transfer_scale, RPow2(sp)))]

RECURSIVE output_list(_, _, _, _, _, _, _, _)
(* output_list after n passes of the loops over layer_num, input_cycle     *)
(* and weight_cycle, in that nesting.                                      *)
output_list(input_bits, weight_bits, factor, transfer_scale, input_cycle, weight_cycle, ini, n) ==
    IF n = 0 THEN <<>>
    ELSE LET l == ((n - 1) \div (input_cycle * weight_cycle)) + 1
             i == ((n - 1) \div weight_cycle) % input_cycle
             j == (n - 1) % weight_cycle
         IN  Append(output_list(input_bits, weight_bits, factor, transfer_scale,
                                input_cycle, weight_cycle, ini, n - 1),
                    adc_entry(l, i, j,
                              RMul(partial_func(input_bits[l][i + 1],
                                                weight_bits[l][j + 1]),
                                   factor),
                              scale_point(i, j, input_cycle, weight_cycle, ini),
                              ini.hardware.adc_bit, transfer_scale))

(* The quantization of the accumulated sum at the output bit-width. *)
quantize_output(adc, acc, bit, output_scale) ==
    [status |-> "ok",
     output |-> RDiv(R(output_level(acc, bit)),
                     RDiv(R(_get_thres(bit)), output_scale)),
     adc |-> adc,
     acc |-> acc]

RECURSIVE SumOut(_, _)
(* torch.sum(torch.stack(output_list, dim=0), dim=0) *)
SumOut(adc, n) == IF n = 0 THEN R(0) ELSE RAdd(SumOut(adc, n - 1), adc[n].out)

stack_and_quantize(adc, bit, output_scale) ==
    quantize_output(adc, SumOut(adc, Len(adc)), bit, output_scale)

(* set_weights_forward from the loops on.  mul_scale / output_scale        *)
(* divides Python floats inside the loop; torch.stack raises on an empty   *)
(* output_list.                                                            *)
bit_serial(input_bits, weight_bits, bsl, ini, input_cycle, weight_cycle, mul_scale, output_scale, transfer_scale) ==
    IF Len(weight_bits) * input_cycle * weight_cycle = 0
    THEN [status |-> "RuntimeError", output |-> <<>>, adc |-> <<>>, acc |-> <<>>]
    ELSE IF RIsZero(output_scale)
    THEN [status |-> "ZeroDivisionError", output |-> <<>>, adc |-> <<>>,
          acc |-> <<>>]
    ELSE stack_and_quantize(
             output_list(input_bits, weight_bits,
                         RMul(RDiv(mul_scale, output_scale), transfer_scale),
                         transfer_scale, input_cycle, weight_cycle, ini,
                         Len(weight_bits) * input_cycle * weight_cycle),
             bsl[3][1], output_scale)

(* The bit slices of every chunk of the input. *)
input_bit_list(input_list, bsl, ini) ==
    [l \in 1..Len(input_list) |->
        split_by_bit(input_list[l], bsl[1][2], bsl[1][1], ini.hardware.dac_bit)]

(* mul_scale for the given numbers of cycles. *)
get_mul_scale(bsl, ini, input_cycle, weight_cycle) ==
    RMul(RMul(bsl[2][2], bsl[1][2]),
         RMul(RPow2((weight_cycle - 1) * ini.hardware.cell_bit),
              RPow2((input_cycle - 1) * ini.hardware.dac_bit)))

cycles_and_scales(input_bits, weight_bits, bsl, ini, input_cycle, weight_cycle) ==
    bit_serial(input_bits, weight_bits, bsl, ini, input_cycle, weight_cycle,
               get_mul_scale(bsl, ini, input_cycle, weight_cycle),
               RMul(bsl[3][2], R(_get_thres(bsl[3][1]))),
               RPow2(ini.hardware.point_shift + ini.hardware.adc_bit - 1))

(* set_weights_forward, entered with self.training false: the status, the  *)
(* returned element, the partial sums in the order of the loops, and the   *)
(* accumulated sum.                                                        *)
set_weights_forward(inputs, quantize_weight_bit_list, bsl, ini) ==
    cycles_and_scales(
        input_bit_list(Chunks(inputs, in_features_list(ini)), bsl, ini),
        quantize_weight_bit_list, bsl, ini,
        _get_cycle(bsl[1][1], ini.hardware.dac_bit),
        _get_cycle(bsl[2][1], ini.hardware.cell_bit))

None == <<>>

(* The call after the weights are quantized: the table it leaves, its      *)
(* status and the returned element.  Quantize writes the row it is handed  *)
(* only when it returns, so a call that raises in the second Quantize has  *)
(* written the weight row.                                                 *)
fix_train_result(bsl, qw, qo) ==
    IF qo.status /= "ok"
    THEN [bsl |-> [bsl EXCEPT ![2] = qw.row], status |-> qo.status, output |-> <<>>]
    ELSE [bsl |-> [bsl EXCEPT ![2] = qw.row, ![3] = qo.row], status |-> "ok",
          output |-> qo.output[1]]

fix_train_weighted(inputs, t_scale, bsl, qw, train) ==
    IF qw.status /= "ok"
    THEN [bsl |-> bsl, status |-> qw.status, output |-> <<>>]
    ELSE fix_train_result(bsl, qw,
             Quantize(<<partial_func(inputs, qw.output)>>,
                      [mode |-> "activation",
                       phase |-> IF train THEN "train" ELSE "test",
                       bit |-> bsl[3][1]],
                      bsl[3], t_scale))

(* The row the output is quantized against copied over the input row. *)
copy_to_input_row(r) == [r EXCEPT !.bsl[1] = r.bsl[3]]

(* FIX_TRAIN that also overwrites the input row. *)
forward_fix_train_row0(inputs, t_scale, bsl, w, train) ==
    copy_to_input_row(
        fix_train_weighted(inputs, t_scale, bsl,
            Quantize(w, [mode |-> "weight", phase |-> "None", bit |-> bsl[2][1]],
                     bsl[2], R(0)),
            train))

(* forward, method FIX_TRAIN. *)
forward_fix_train(inputs, t_scale, bsl, w, train) ==
    fix_train_weighted(inputs, t_scale, bsl,
        Quantize(w, [mode |-> "weight", phase |-> "None", bit |-> bsl[2][1]],
                 bsl[2], R(0)),
        train)

(* The bit-serial pass on the table with the input row overwritten. *)
single_fix_test_result(written, out) ==
    [bsl |-> written, status |-> out.status, output |-> out.output,
     adc |-> out.adc, acc |-> out.acc]

single_fix_test_written(inputs, written, w, ini) ==
    single_fix_test_result(written,
        set_weights_forward(inputs, get_quantize_weight_bit_list(w, written, ini),
                            written, ini))

(* SINGLE_FIX_TEST with the input row written before the assertions. *)
forward_single_fix_test_write_first(inputs, input_config, bsl, w, ini, train) ==
    IF train \/ input_config = None
    THEN [bsl |-> IF input_config = None THEN bsl
                  ELSE [bsl EXCEPT ![1] = input_config],
          status |-> "AssertionError", output |-> <<>>, adc |-> <<>>, acc |-> <<>>]
    ELSE single_fix_test_written(inputs, [bsl EXCEPT ![1] = input_config], w, ini)

(* forward, method SINGLE_FIX_TEST: the two assertions, then the input row *)
(* is overwritten, then the bit-serial pass.                               *)
forward_single_fix_test(inputs, input_config, bsl, w, ini, train) ==
    IF train \/ input_config = None
    THEN [bsl |-> bsl, status |-> "AssertionError", output |-> <<>>,
          adc |-> <<>>, acc |-> <<>>]
    ELSE single_fix_test_written(inputs, [bsl EXCEPT ![1] = input_config], w, ini)

----------------------------------------------------------------------------
(* Values the variables of an unused part of the model rest at. *)
PureIdle  == fn = "none" /\ args = <<>> /\ res = Pending
QuantIdle == q_inputs = <<>> /\ quantize_cfg = <<>> /\ last_bit_scale = <<>>
             /\ q_trace = <<>>
LayerIdle == layer_ini = <<>> /\ weight = <<>> /\ training = FALSE
             /\ bit_scale_list = <<>> /\ n_train = 0 /\ call = <<>>

----------------------------------------------------------------------------
(* split_by_num applied to every pair of arguments within the bounds. *)

InitNum ==
    /\ fn = "split_by_num"
    /\ args \in [num : 0..MaxNum, base : 0..MaxBase]
    /\ res = Pending
    /\ QuantIdle /\ LayerIdle

CallSplitByNum ==
    /\ fn = "split_by_num" /\ res = Pending
    /\ res' = split_by_num(args.num, args.base)
    /\ UNCHANGED <<fn, args, quantVars, layerVars>>

SpecNum == InitNum /\ [][CallSplitByNum]_vars

(* C3: for D > 0 and rows_per_partition > 0, split_by_num returns          *)
(* floor(D / rows) chunks of size rows, followed by one chunk of size      *)
(* D mod rows only when that remainder is non-zero; the sizes sum to D,    *)
(* every chunk is > 0 and at most one chunk, the last, is undersized.      *)
PartitionCoverage ==
    (fn = "split_by_num" /\ res /= Pending /\ args.num > 0 /\ args.base > 0) =>
        LET D == args.num
            rows == args.base
            full == CHOOSE k \in 0..D : k * rows <= D /\ D < (k + 1) * rows
            rest == D - full * rows
            chunks == res.value
        IN  /\ res.status = "ok"
            /\ Len(chunks) = full + (IF rest = 0 THEN 0 ELSE 1)
            /\ \A k \in 1..full : chunks[k] = rows
            /\ rest /= 0 => chunks[full + 1] = rest
            /\ SumInt(chunks) = D
            /\ \A k \in 1..Len(chunks) : chunks[k] > 0
            /\ \A k \in 1..Len(chunks) : chunks[k] < rows => k = Len(chunks)

(* D = 20, rows_per_partition = 8 gives [8, 8, 4]. *)
PartitionCoverageWitness ==
    /\ fn = "split_by_num" /\ args = [num |-> 20, base |-> 8]
    /\ res = Return(<<8, 8, 4>>)

----------------------------------------------------------------------------
(* split_by_bit applied to one-element tensors: the function is            *)
(* element-wise.  Elements are multiples of 1/2, so that ties are rounded. *)

BitScales == {<<-1, 1>>, <<1, 2>>, <<1, 1>>, <<3, 1>>}

InitBit ==
    /\ fn = "split_by_bit"
    /\ args \in [tensor : {<<Norm(n, 2)>> : n \in -MaxTensor..MaxTensor},
                 scale : BitScales,
                 bit_width : 1..MaxBitWidth,
                 bit_split : 1..MaxBitSplit]
    /\ res = Pending
    /\ QuantIdle /\ LayerIdle

CallSplitByBit ==
    /\ fn = "split_by_bit" /\ res = Pending
    /\ res' = Return(split_by_bit(args.tensor, args.scale, args.bit_width,
                                  args.bit_split))
    /\ UNCHANGED <<fn, args, quantVars, layerVars>>

SpecBit == InitBit /\ [][CallSplitByBit]_vars

(* The quantized level q of the element a call of split_by_bit was given. *)
BitLevel == quantize_level(args.tensor[1], args.scale, args.bit_width)

(* Sum over the slices of slice_i * 2^(bit_split * i), i counting from 0. *)
Recombine(slices, e, bit_split) ==
    RSum([i \in 1..Len(slices) |->
             RMul(slices[i][e], R(2 ^ (bit_split * (i - 1))))])

(* C1: the slices split_by_bit returns recombine to the signed level q:    *)
(* the sum over i of slice_i * 2^(bit_split * i) equals q, for every       *)
(* bit_width >= 1, bit_split >= 1 and |q| <= 2^(bit_width - 1) - 1.        *)
DigitRoundTrip ==
    (fn = "split_by_bit" /\ res.status = "ok") =>
        Recombine(res.value, 1, args.bit_split) = R(BitLevel)

(* bit_width 8, bit_split 2, q = 100: 4 slices recombining to 100. *)
DigitRoundTripWitness ==
    /\ fn = "split_by_bit" /\ res.status = "ok"
    /\ args.bit_width = 8 /\ args.bit_split = 2 /\ BitLevel = 100
    /\ Len(res.value) = 4
    /\ Recombine(res.value, 1, 2) = R(100)

(* C2: split_by_bit returns exactly ceil((bit_width - 1) / bit_split)      *)
(* slices, each an integer of magnitude < 2^bit_split whose sign is zero   *)
(* or the sign of q.                                                       *)
DigitBound ==
    (fn = "split_by_bit" /\ res.status = "ok") =>
        LET cycle == CHOOSE c \in 0..args.bit_width :
                         /\ c * args.bit_split >= args.bit_width - 1
                         /\ c = 0 \/ (c - 1) * args.bit_split < args.bit_width - 1
        IN  /\ Len(res.value) = cycle
            /\ \A i \in 1..Len(res.value) :
                   LET d == res.value[i][1]
                   IN  /\ RIsInt(d)
                       /\ IAbs(d[1]) < 2 ^ args.bit_split
                       /\ Sign(d[1]) \in {0, Sign(BitLevel)}

(* A negative level at the threshold whose most significant slice is not   *)
(* zero, split over several cycles.                                        *)
DigitBoundWitness ==
    /\ fn = "split_by_bit" /\ res.status = "ok"
    /\ args.bit_width = 8 /\ args.bit_split = 3 /\ BitLevel = -127
    /\ Len(res.value) = 3
    /\ res.value[3][1] = R(-1) /\ res.value[1][1] = R(-7)

----------------------------------------------------------------------------
(* Quantize applied to a tensor and then to its own output.  The row       *)
(* starts as a layer holds it: the configured bit-width with the sentinel  *)
(* -1 or a positive step.                                                  *)

QValues == {<<-2, 1>>, <<0, 1>>, <<1, 2>>, <<3, 1>>}
QSteps == {<<-1, 1>>, <<1, 3>>, <<1, 1>>, <<2, 1>>}
TScales == {<<0, 1>>, <<1, 1>>, <<3, 1>>, <<7, 2>>}
QModes == {[mode |-> "weight", phase |-> "None"],
           [mode |-> "activation", phase |-> "train"],
           [mode |-> "activation", phase |-> "test"],
           [mode |-> "activation", phase |-> "None"],
           [mode |-> "bias", phase |-> "None"]}

InitQuant ==
    /\ q_inputs \in [1..2 -> QValues]
    /\ \E m \in QModes, b \in 1..MaxQuantBit :
           quantize_cfg = [mode |-> m.mode, phase |-> m.phase, bit |-> b]
    /\ \E s \in QSteps : last_bit_scale = <<quantize_cfg.bit, s>>
    /\ q_trace = <<>>
    /\ PureIdle /\ LayerIdle

IsTrain(cfg) == cfg.mode = "activation" /\ cfg.phase = "train"

QuantizeCall ==
    /\ Len(q_trace) < MaxApply
    /\ IsTrain(quantize_cfg) => Len(q_trace) < MaxSmooth
    /\ q_trace /= <<>> => q_trace[Len(q_trace)].status = "ok"
    /\ \E t_scale \in (IF IsTrain(quantize_cfg) THEN TScales ELSE {R(0)}) :
           LET out == Quantize(q_inputs, quantize_cfg, last_bit_scale, t_scale)
           IN  /\ q_trace' = Append(q_trace,
                      [status |-> out.status, inputs |-> q_inputs,
                       levels |-> out.levels, output |-> out.output,
                       before |-> last_bit_scale, after |-> out.row,
                       scale |-> out.scale, t_scale |-> t_scale])
               /\ last_bit_scale' = out.row
               /\ q_inputs' = IF out.status = "ok" THEN out.output ELSE q_inputs
    /\ UNCHANGED <<quantize_cfg, pureVars, layerVars>>

SpecQuant == InitQuant /\ [][QuantizeCall]_vars

FixedScale(cfg) ==
    cfg.mode = "weight" \/ (cfg.mode = "activation" /\ cfg.phase = "test")

(* C4: Quantize applied to the output of Quantize, at the same bit-width   *)
(* and scale (weight mode, where the scale is max|array|, or activation    *)
(* mode in test phase, where it is the committed range), returns the same  *)
(* array with the same levels and commits the same (bit_width, step).      *)
QuantizeIdempotent ==
    \A k \in 2..Len(q_trace) :
        (FixedScale(quantize_cfg) /\ q_trace[k - 1].status = "ok") =>
            /\ q_trace[k].status = "ok"
            /\ q_trace[k].inputs = q_trace[k - 1].output
            /\ q_trace[k].levels = q_trace[k - 1].levels
            /\ q_trace[k].output = q_trace[k - 1].output
            /\ q_trace[k].after = q_trace[k - 1].after

(* Weight mode, twice, on a tensor the first call really changes, with a   *)
(* level strictly inside the range and a step that is not 1.               *)
QuantizeIdempotentWitness ==
    /\ Len(q_trace) = 2 /\ quantize_cfg.mode = "weight" /\ quantize_cfg.bit = 3
    /\ q_trace[1].status = "ok" /\ q_trace[2].status = "ok"
    /\ q_trace[1].inputs = <<R(3), <<1, 2>>>>
    /\ q_trace[1].output = <<R(3), R(0)>>
    /\ q_trace[1].after = <<3, R(1)>>
    /\ q_trace[2].output = <<R(3), R(0)>>

StrictlyBetween(x, a, b) ==
    (RLt(a, x) /\ RLt(x, b)) \/ (RLt(b, x) /\ RLt(x, a))

(* r_scale of a recorded call: the committed step times its threshold. *)
PrevRange(rec) == RMul(rec.before[2], R(2 ^ (rec.before[1] - 1) - 1))

Mix(r, t) == RAdd(RMul(<<707, 1000>>, r), RMul(<<293, 1000>>, t))

(* C5 as stated: in activation/train mode the scale is t_scale when        *)
(* r_scale <= 0, and otherwise is 0.707 r_scale + 0.293 t_scale and lies   *)
(* strictly between t_scale and r_scale, t_scale = r_scale included.       *)
ScaleSmoothingStrict ==
    \A k \in 1..Len(q_trace) :
        IsTrain(quantize_cfg) =>
            LET r == PrevRange(q_trace[k])
                t == q_trace[k].t_scale
                scale == q_trace[k].scale
            IN  /\ RLe(r, R(0)) => scale = t
                /\ RLt(R(0), r) =>
                       /\ scale = Mix(r, t)
                       /\ StrictlyBetween(scale, t, r)

(* C5 amended: in activation/train mode the scale is t_scale when          *)
(* r_scale <= 0, and otherwise is 0.707 r_scale + 0.293 t_scale, which     *)
(* lies strictly between t_scale and r_scale when they differ and equals   *)
(* both when t_scale = r_scale.                                            *)
ScaleSmoothing ==
    \A k \in 1..Len(q_trace) :
        IsTrain(quantize_cfg) =>
            LET r == PrevRange(q_trace[k])
                t == q_trace[k].t_scale
                scale == q_trace[k].scale
            IN  /\ RLe(r, R(0)) => scale = t
                /\ RLt(R(0), r) =>
                       /\ scale = Mix(r, t)
                       /\ t /= r => StrictlyBetween(scale, t, r)
                       /\ t = r => scale = r

(* A smoothed scale: r_scale = 3, t_scale = 1, scale = 2.414. *)
ScaleSmoothingWitness ==
    /\ Len(q_trace) = 1 /\ IsTrain(quantize_cfg)
    /\ q_trace[1].before = <<3, R(1)>>
    /\ q_trace[1].t_scale = R(1)
    /\ q_trace[1].scale = <<1207, 500>>
    /\ q_trace[1].status = "ok"

----------------------------------------------------------------------------
(* A layer object: construction, the switch between training and           *)
(* evaluation, and forward calls by every method.                          *)

LayerInis ==
    {[quantize |-> [input |-> 3, weight |-> 3, output |-> 3],
      hardware |-> [xbar_row |-> 2, cell_bit |-> 1, dac_bit |-> 1,
                    adc_bit |-> 4, point_shift |-> -1],
      layer |-> [in_features |-> 3]],
     [quantize |-> [input |-> 3, weight |-> 3, output |-> 3],
      hardware |-> [xbar_row |-> 2, cell_bit |-> 2, dac_bit |-> 2,
                    adc_bit |-> 6, point_shift |-> -1],
      layer |-> [in_features |-> 3]],
     [quantize |-> [input |-> 3, weight |-> 1, output |-> 3],
      hardware |-> [xbar_row |-> 3, cell_bit |-> 1, dac_bit |-> 2,
                    adc_bit |-> 3, point_shift |-> 0],
      layer |-> [in_features |-> 3]]}

Weights == {<<R(3), R(-2), R(1)>>, <<R(1), <<3, 2>>, R(-3)>>, <<R(0), R(0), R(0)>>}
Inputs == {<<R(1), R(-2), R(3)>>, <<R(0), <<1, 2>>, R(-1)>>, <<R(5), R(1), R(-3)>>}
(* The committed output row of the preceding layer: the sentinel or a      *)
(* positive step (Quantize raises before it would commit a step of 0).     *)
InputConfigs == {<<3, R(1)>>, <<3, R(-1)>>, <<2, <<1, 2>>>>}
LayerTScales == {R(0), R(3), R(16)}

(* __init__: a fresh nn.Module is in training mode. *)
InitLayer ==
    /\ layer_ini \in LayerInis
    /\ weight \in Weights
    /\ training = TRUE
    /\ bit_scale_list = get_buffer_list(layer_ini)
    /\ n_train = 0
    /\ call = Outcome("none", TRUE, "ok", <<>>, None, <<>>, <<>>, <<>>)
    /\ PureIdle /\ QuantIdle

(* nn.Module.train() / eval() *)
SetTraining ==
    /\ training' = ~training
    /\ UNCHANGED <<layer_ini, weight, bit_scale_list, n_train, call,
                   pureVars, quantVars>>

ForwardTradition ==
    \E inputs \in Inputs :
        /\ call' = Outcome("TRADITION", training, "ok", inputs, None,
                           tradition_forward(inputs, weight, layer_ini), <<>>, <<>>)
        /\ UNCHANGED <<layer_ini, weight, training, bit_scale_list, n_train,
                       pureVars, quantVars>>

ForwardFixTrain ==
    \E inputs \in Inputs, t_scale \in LayerTScales :
        /\ training => n_train < MaxTrain
        /\ ~training => t_scale = R(0)
        /\ LET Leave(out) ==
                   /\ bit_scale_list' = out.bsl
                   /\ call' = Outcome("FIX_TRAIN", training, out.status, inputs,
                                      None, out.output, <<>>, <<>>)
           IN  Leave(forward_fix_train(inputs, t_scale, bit_scale_list, weight,
                                       training))
        /\ n_train' = IF training THEN n_train + 1 ELSE n_train
        /\ UNCHANGED <<layer_ini, weight, training, pureVars, quantVars>>

ForwardSingleFixTest ==
    \E inputs \in Inputs, input_config \in InputConfigs \cup {None} :
        /\ LET Leave(out) ==
                   /\ bit_scale_list' = out.bsl
                   /\ call' = Outcome("SINGLE_FIX_TEST", training, out.status,
                                      inputs, input_config, out.output, out.adc,
                                      out.acc)
           IN  Leave(forward_single_fix_test(inputs, input_config, bit_scale_list,
                                             weight, layer_ini, training))
        /\ UNCHANGED <<layer_ini, weight, training, n_train, pureVars, quantVars>>

(* forward with any other method string: the last assertion. *)
ForwardUnknown ==
    \E inputs \in Inputs :
        /\ call' = Outcome("OTHER", training, "AssertionError", inputs, None,
                           <<>>, <<>>, <<>>)
        /\ UNCHANGED <<layer_ini, weight, training, bit_scale_list, n_train,
                       pureVars, quantVars>>

Next ==
    \/ SetTraining
    \/ ForwardTradition
    \/ ForwardFixTrain
    \/ ForwardSingleFixTest
    \/ ForwardUnknown

Spec == InitLayer /\ [][Next]_vars

(* C6: a SINGLE_FIX_TEST call fails when the layer is in training or no    *)
(* input pair is supplied, a call with an unknown method fails, and each   *)
(* of these failing calls leaves the three rows of the table as they were. *)
ModePreconditions ==
    [][call' /= call =>
        /\ (call'.method = "SINGLE_FIX_TEST"
              /\ (training \/ call'.input_config = None))
               => call'.status = "AssertionError"
        /\ call'.method = "OTHER" => call'.status = "AssertionError"
        /\ (call'.method \in {"SINGLE_FIX_TEST", "OTHER"}
              /\ call'.status = "AssertionError")
               => bit_scale_list' = bit_scale_list]_vars

(* A SINGLE_FIX_TEST call that failed in training, with an input pair      *)
(* supplied that differs from the input row, on a table that earlier calls *)
(* have written.                                                           *)
ModePreconditionsWitness ==
    /\ call.method = "SINGLE_FIX_TEST" /\ call.status = "AssertionError"
    /\ training /\ call.input_config /= None
    /\ call.input_config /= bit_scale_list[1]
    /\ bit_scale_list[1] /= get_buffer_list(layer_ini)[1]
    /\ bit_scale_list[2][2] /= R(-1) /\ bit_scale_list[3][2] /= R(-1)

(* C7: a TRADITION call changes no row; a FIX_TRAIN call leaves the input  *)
(* row unchanged; a SINGLE_FIX_TEST call leaves the weight row and the     *)
(* output row unchanged and, once past its assertions, leaves the input    *)
(* row equal to the pair the caller supplied.                              *)
ModeFrame ==
    [][call' /= call =>
        /\ call'.method = "TRADITION" => bit_scale_list' = bit_scale_list
        /\ call'.method = "FIX_TRAIN" => bit_scale_list'[1] = bit_scale_list[1]
        /\ call'.method = "SINGLE_FIX_TEST" =>
               /\ bit_scale_list'[2] = bit_scale_list[2]
               /\ bit_scale_list'[3] = bit_scale_list[3]
               /\ IF call'.status = "AssertionError"
                  THEN bit_scale_list'[1] = bit_scale_list[1]
                  ELSE bit_scale_list'[1] = call'.input_config]_vars

(* After a FIX_TRAIN call in training that wrote the weight and output     *)
(* rows of a table whose input row an earlier SINGLE_FIX_TEST call had     *)
(* overwritten.                                                            *)
ModeFrameWitness ==
    /\ call.method = "FIX_TRAIN" /\ call.status = "ok" /\ call.training
    /\ n_train = 2
    /\ bit_scale_list[1] = <<2, <<1, 2>>>>
    /\ bit_scale_list[1] /= get_buffer_list(layer_ini)[1]
    /\ bit_scale_list[2][2] /= R(-1) /\ bit_scale_list[3][2] /= R(-1)

(* C8: every row's scale is the sentinel -1 or is >= 0, and the bit-width  *)
(* of the weight row and of the output row is the configured one.          *)
ScaleInvariant ==
    /\ \A k \in 1..3 :
           bit_scale_list[k][2] = R(-1) \/ RLe(R(0), bit_scale_list[k][2])
    /\ bit_scale_list[2][1] = layer_ini.quantize.weight
    /\ bit_scale_list[3][1] = layer_ini.quantize.output

(* After a FIX_TRAIN call in evaluation on a layer never trained: the      *)
(* weight row holds a positive step and the output row still the sentinel. *)
ScaleInvariantWitness ==
    /\ call.method = "FIX_TRAIN" /\ call.status = "ok" /\ ~call.training
    /\ RLt(R(0), bit_scale_list[2][2])
    /\ bit_scale_list[3][2] = R(-1)

(* ceil(a / b) for a >= 0 and b > 0. *)
CeilDiv(a, b) == CHOOSE c \in 0..a : c * b >= a /\ (c = 0 \/ (c - 1) * b < a)

NumPartitions == CeilDiv(layer_ini.layer.in_features, layer_ini.hardware.xbar_row)
InputCycle == CeilDiv(bit_scale_list[1][1] - 1, layer_ini.hardware.dac_bit)
WeightCycle == CeilDiv(bit_scale_list[2][1] - 1, layer_ini.hardware.cell_bit)
AdcThres == 2 ^ (layer_ini.hardware.adc_bit - 1) - 1
OutThres == 2 ^ (bit_scale_list[3][1] - 1) - 1
TransferScale ==
    RPow2(layer_ini.hardware.point_shift + layer_ini.hardware.adc_bit - 1)

HwReturned == call.method = "SINGLE_FIX_TEST" /\ call.status = "ok"

(* No row holds the sentinel: FIX_TRAIN has committed the weight and       *)
(* output steps and the supplied input step is positive.                   *)
Trained == \A k \in 1..3 : RLt(R(0), bit_scale_list[k][2])

(* C9: in a SINGLE_FIX_TEST call that returns there is exactly one partial *)
(* sum per (sub-operation, input digit, weight digit), each of them an     *)
(* integer within the ADC threshold that is then divided by                *)
(* transfer_scale * 2^scale_point and accumulated, and the returned output *)
(* is an integer level within the output threshold times the committed     *)
(* output step.                                                            *)
AdcClamping ==
    HwReturned =>
        /\ Len(call.adc) = NumPartitions * InputCycle * WeightCycle
        /\ \A l \in 1..NumPartitions, i \in 0..(InputCycle - 1),
              j \in 0..(WeightCycle - 1) :
               Cardinality({n \in 1..Len(call.adc) :
                   /\ call.adc[n].layer = l
                   /\ call.adc[n].i = i
                   /\ call.adc[n].j = j}) = 1
        /\ \A n \in 1..Len(call.adc) :
               /\ call.adc[n].val \in (-AdcThres)..AdcThres
               /\ call.adc[n].out =
                      RDiv(R(call.adc[n].val),
                           RMul(TransferScale, RPow2(call.adc[n].sp)))
        /\ call.acc = RSum([n \in 1..Len(call.adc) |-> call.adc[n].out])
        /\ \E level \in (-OutThres)..OutThres :
               call.output = RMul(R(level), bit_scale_list[3][2])

(* A call in which the ADC clipped one partial sum and rounded another     *)
(* and the output level was clamped to the output threshold.               *)
AdcClampingWitness ==
    /\ HwReturned /\ Trained
    /\ \E n \in 1..Len(call.adc) :
           RLt(R(AdcThres), RAbs(call.adc[n].raw))
    /\ \E n \in 1..Len(call.adc) :
           ~RIsInt(call.adc[n].raw) /\ RLt(RAbs(call.adc[n].raw), R(AdcThres))
    /\ RLt(R(1), RAbs(call.acc))
    /\ RAbs(call.output) = RMul(R(OutThres), bit_scale_list[3][2])

(* The ADC stage neither rounded nor clipped. *)
AdcExact == \A n \in 1..Len(call.adc) : call.adc[n].raw = R(call.adc[n].val)

(* The linear operation on the undivided levels, in units of the output    *)
(* range: sum(input_level * weight_level) * input_step * weight_step /     *)
(* output_scale.                                                           *)
DirectSum ==
    LET in_level(k) == quantize_level(call.inputs[k], bit_scale_list[1][2],
                                      bit_scale_list[1][1])
        w_level(k) == quantize_level(weight[k], bit_scale_list[2][2],
                                     bit_scale_list[2][1])
        total == SumInt([k \in 1..Len(weight) |-> in_level(k) * w_level(k)])
    IN  RDiv(RMul(R(total), RMul(bit_scale_list[1][2], bit_scale_list[2][2])),
             RMul(bit_scale_list[3][2], R(OutThres)))

ScalePointPositional ==
    \A n \in 1..Len(call.adc) :
        /\ call.adc[n].sp =
               (InputCycle - 1 - call.adc[n].i) * layer_ini.hardware.dac_bit
               + (WeightCycle - 1 - call.adc[n].j) * layer_ini.hardware.cell_bit
        /\ call.adc[n].sp >= 0
        /\ call.adc[n].sp = 0 <=>
               (call.adc[n].i = InputCycle - 1 /\ call.adc[n].j = WeightCycle - 1)

====
